---- MODULE Spec2Model ----
(***************************************************************************)
(* bookmarks-md: src/src/extension.ts.                                     *)
(*                                                                         *)
(* Two state machines over one set of variables:                           *)
(*   Spec          the tree builder of extractBookmarks, one renderer      *)
(*                 callback (heading / link / any other construct) a step; *)
(*   SpecProvider  BookmarksDataProvider with the BOOKMARKS.md file, the   *)
(*                 3 s timer's refresh() and the view's getChildren().     *)
(*                                                                         *)
(* Objects live in a heap: `nodes` is the sequence of the BookmarkBase     *)
(* objects in allocation order, and a reference to an object is its index. *)
(* A children array, the bookmarks array and the directory stack are       *)
(* sequences of references, as in the code.                                *)
(***************************************************************************)
EXTENDS Naturals, Sequences, FiniteSets

\* ---------------------------------------------------------------- bounds

\* Longest run of renderer callbacks of one extractBookmarks call.
MaxLen == 5
\* Deepest heading level the markdown of a run uses (marked gives 1..6).
MaxLevel == 3
\* Longest BOOKMARKS.md text (in blocks) the provider is given.
MaxDocLen == 2
\* Change events counted before the counter stops the timer.
MaxFired == 2

Levels == 1..MaxLevel
\* The heading text of a run; the links carry the distinct texts.
Titles == {"A"}
\* (text, href) of the links of a run.
LinkPairs == {<<"X", "http://x">>, <<"Y", "http://y">>}

\* ------------------------------------------------------------ the classes

DirectoryItem(title, level) ==
    [kind |-> "Directory", title |-> title, level |-> level, link |-> "",
     children |-> <<>>]

BookmarkItem(title, link) ==
    [kind |-> "Link", title |-> title, level |-> 0, link |-> link,
     children |-> <<>>]

NoBookmarksItem ==
    [kind |-> "NoBookmarks", title |-> "Create BOOKMARKS.md", level |-> 0,
     link |-> "", children |-> <<>>]

\* ------------------------------------------------- the markdown of a run

\* What marked hands the renderer, in the order it calls it.
HeadingEvent(text, level) ==
    [type |-> "heading", text |-> text, level |-> level, href |-> ""]

LinkEvent(href, text) ==
    [type |-> "link", text |-> text, level |-> 0, href |-> href]

\* Any other construct (paragraph, list, emphasis, code): the default
\* renderer method runs and the builder's state is not touched.
OtherEvent == [type |-> "other", text |-> "", level |-> 0, href |-> ""]

\* A heading block whose own text is a link: `## [text](href)`.
HeadingWithLink(level, href, text) ==
    [type |-> "headingLink", text |-> text, level |-> level, href |-> href]

\* The renderer calls marked makes for one block of the text. renderer.heading
\* is handed the heading's text already rendered, that is the output of the
\* inline renderers: renderer.link has run, and returned '', before
\* renderer.heading is called with that text.
Callbacks(block) ==
    IF block.type = "headingLink"
    THEN <<LinkEvent(block.href, block.text), HeadingEvent("", block.level)>>
    ELSE <<block>>

\* ------------------------------------------------------ the tree builder

\* The state of one extractBookmarks call: the objects it has allocated,
\* its bookmarks array and its directoryStack.
NewBuilder == [nodes |-> <<>>, bookmarks |-> <<>>, directoryStack |-> <<>>]

Top(stack) == stack[Len(stack)]

\* Variant: pop-if-<, so that an equal level nests.
ShouldPopStrict(level, topLevel) == level < topLevel

\* Variant: the comparison the wrong way round.
ShouldPopReversed(level, topLevel) == level >= topLevel

\* The loop condition of renderer.heading, given the top directory's level.
ShouldPop(level, topLevel) == level <= topLevel

\* Variant: `if` for `while`, at most one pop a heading.
PopOnce(stack, heap, level) ==
    IF Len(stack) > 0 /\ ShouldPop(level, heap[Top(stack)].level)
    THEN SubSeq(stack, 1, Len(stack) - 1)
    ELSE stack

\* The while loop of renderer.heading: the stack left after the pops.
RECURSIVE PopDirectories(_, _, _)
PopDirectories(stack, heap, level) ==
    IF Len(stack) > 0 /\ ShouldPop(level, heap[Top(stack)].level)
    THEN PopDirectories(SubSeq(stack, 1, Len(stack) - 1), heap, level)
    ELSE stack

\* Variant: unshift for push, the new object goes first.
AttachFirst(b, heap, stack, id) ==
    [nodes |-> IF Len(stack) > 0
               THEN [heap EXCEPT ![Top(stack)].children = <<id>> \o @]
               ELSE heap,
     bookmarks |-> IF Len(stack) > 0 THEN b.bookmarks
                   ELSE <<id>> \o b.bookmarks,
     directoryStack |-> stack]

\* parentDir.children.push(item) / bookmarks.push(item), for the object
\* `id` just allocated, under the stack `stack`.
Attach(b, heap, stack, id) ==
    [nodes |-> IF Len(stack) > 0
               THEN [heap EXCEPT ![Top(stack)].children = Append(@, id)]
               ELSE heap,
     bookmarks |-> IF Len(stack) > 0 THEN b.bookmarks
                   ELSE Append(b.bookmarks, id),
     directoryStack |-> stack]

\* Variant: the new directory is never pushed on the stack.
headingNoPush(b, text, level) ==
    LET stack == PopDirectories(b.directoryStack, b.nodes, level)
        id == Len(b.nodes) + 1
        heap == Append(b.nodes, DirectoryItem(text, level))
    IN  Attach(b, heap, stack, id)

\* renderer.heading(text, level)
heading(b, text, level) ==
    LET stack == PopDirectories(b.directoryStack, b.nodes, level)
        id == Len(b.nodes) + 1
        heap == Append(b.nodes, DirectoryItem(text, level))
        a == Attach(b, heap, stack, id)
    IN  [a EXCEPT !.directoryStack = Append(stack, id)]

\* Variant: the link always goes to the bookmarks array.
linkAtRoot(b, href, text) ==
    LET id == Len(b.nodes) + 1
        heap == Append(b.nodes, BookmarkItem(text, href))
    IN  Attach(b, heap, <<>>, id)

\* renderer.link(href, title, text); the markdown title attribute is unused.
link(b, href, text) ==
    LET id == Len(b.nodes) + 1
        heap == Append(b.nodes, BookmarkItem(text, href))
    IN  Attach(b, heap, b.directoryStack, id)

\* Variant: whatever is not a heading is taken for a link.
RenderOtherAsLink(b, e) ==
    CASE e.type = "heading" -> heading(b, e.text, e.level)
      [] OTHER -> link(b, e.href, e.text)

\* One renderer callback.
Render(b, e) ==
    CASE e.type = "heading" -> heading(b, e.text, e.level)
      [] e.type = "link" -> link(b, e.href, e.text)
      [] OTHER -> b

\* The callbacks of one block, in marked's order.
RECURSIVE RenderAll(_, _)
RenderAll(b, calls) ==
    IF calls = <<>> THEN b
    ELSE RenderAll(Render(b, Head(calls)), Tail(calls))

\* marked(markdownContent, { renderer }): the blocks in document order.
RECURSIVE marked(_, _)
marked(b, content) ==
    IF content = <<>> THEN b
    ELSE marked(RenderAll(b, Callbacks(Head(content))), Tail(content))

\* extractBookmarks(markdownContent): the returned array with its objects.
extractBookmarks(content) ==
    LET b == marked(NewBuilder, content)
    IN  [nodes |-> b.nodes, bookmarks |-> b.bookmarks]

\* --------------------------------------------------------------- state

VARIABLES
    \* extractBookmarks, one call
    nodes,            \* the objects allocated so far
    bookmarks,        \* const bookmarks: BookmarkBase[]
    directoryStack,   \* let directoryStack: DirectoryItem[]
    events,           \* the renderer callbacks made so far, in order
    born,             \* born[id]: the index in events of the callback that allocated id
    pops,             \* directoryStack.pop() calls made so far
    pc,               \* "parsing" inside marked(...), "returned" after return bookmarks
    \* BookmarksDataProvider and its surroundings
    workspaceFolders, \* vscode.workspace.workspaceFolders is defined
    file,             \* BOOKMARKS.md: whether it exists, and its text
    held,             \* this.bookmarks
    fired,            \* _onDidChangeTreeData.fire calls so far
    result,           \* <<>>, or <<what the last getChildren() resolved to>>
    lastCall,         \* the provider method or outside change that ran last
    \* two extractBookmarks calls at once, their objects in one heap
    calls             \* heap, and per call: bookmarks, directoryStack, events, pc

builderVars == <<nodes, bookmarks, directoryStack, events, born, pops, pc>>
providerVars == <<workspaceFolders, file, held, fired, result, lastCall>>
vars == <<nodes, bookmarks, directoryStack, events, born, pops, pc,
          workspaceFolders, file, held, fired, result, lastCall, calls>>

\* -------------------------------------------------------- builder steps

Builder == [nodes |-> nodes, bookmarks |-> bookmarks,
            directoryStack |-> directoryStack]

BuilderInit ==
    /\ nodes = <<>>
    /\ bookmarks = <<>>
    /\ directoryStack = <<>>
    /\ events = <<>>
    /\ born = <<>>
    /\ pops = 0
    /\ pc = "parsing"

\* The builder after callback e, as one step of the call in progress.
Step(e) ==
    LET b == Render(Builder, e)
    IN  /\ nodes' = b.nodes
        /\ bookmarks' = b.bookmarks
        /\ directoryStack' = b.directoryStack
        /\ events' = Append(events, e)
        /\ born' = IF Len(b.nodes) > Len(nodes)
                   THEN Append(born, Len(events) + 1) ELSE born
        /\ pops' = IF e.type = "heading"
                   THEN pops + (Len(directoryStack)
                                - Len(PopDirectories(directoryStack, nodes, e.level)))
                   ELSE pops
        /\ UNCHANGED pc
        /\ UNCHANGED providerVars
        /\ UNCHANGED calls

\* marked(...) is still running and has another callback to make.
MoreToParse == pc = "parsing" /\ Len(events) < MaxLen

Heading ==
    /\ MoreToParse
    /\ \E text \in Titles, level \in Levels : Step(HeadingEvent(text, level))

Link ==
    /\ MoreToParse
    /\ \E p \in LinkPairs : Step(LinkEvent(p[2], p[1]))

Other ==
    /\ MoreToParse
    /\ Step(OtherEvent)

\* marked(...) has made its last callback: return bookmarks.
Return ==
    /\ pc = "parsing"
    /\ pc' = "returned"
    /\ UNCHANGED <<nodes, bookmarks, directoryStack, events, born, pops>>
    /\ UNCHANGED providerVars
    /\ UNCHANGED calls

\* ------------------------------------------------------------- provider

\* No BOOKMARKS.md in the workspace folder.
Absent == [exists |-> FALSE, text |-> <<>>]

FileWith(content) == [exists |-> TRUE, text |-> content]

\* No getChildren() call has resolved yet.
NoResult == <<>>

EmptyForest == [nodes |-> <<>>, bookmarks |-> <<>>]

\* The blocks a BOOKMARKS.md of a provider run is written from.
DocBlocks == {HeadingEvent("A", 1), LinkEvent("http://x", "X"), OtherEvent}

\* Texts with a link inside a heading: `# [X](http://x)` alone, and
\* `## [X](http://x)` under the heading `# A`.
HeadingLinkDocs ==
    {<<HeadingWithLink(1, "http://x", "X")>>,
     <<HeadingEvent("A", 1), HeadingWithLink(2, "http://x", "X")>>}

RECURSIVE SeqsUpTo(_, _)
SeqsUpTo(S, n) ==
    IF n = 0 THEN {<<>>}
    ELSE LET shorter == SeqsUpTo(S, n - 1)
         IN  shorter \cup {Append(s, x) : s \in shorter, x \in S}

Contents == SeqsUpTo(DocBlocks, MaxDocLen) \cup HeadingLinkDocs

\* const defaultContent of createBookmarksFile
defaultContent ==
    <<HeadingEvent("Default Bookmark", 1),
      LinkEvent("https://www.example.com", "Good for Now")>>

null == [isNull |-> TRUE, text |-> <<>>]

\* readBookmarksFile(): null or the file's text.
readBookmarksFile ==
    IF ~workspaceFolders THEN null
    ELSE IF file.exists THEN [isNull |-> FALSE, text |-> file.text]
    ELSE null

\* Variant: `content !== null`, the empty string passes.
NotNull(content) == ~content.isNull

\* `if (content)`: null and the empty string are falsy.
Truthy(content) == ~content.isNull /\ content.text # <<>>

\* The constructor's refresh() has run.
ProviderInit ==
    /\ workspaceFolders \in BOOLEAN
    /\ file \in {Absent} \cup {FileWith(c) : c \in Contents}
    /\ ~workspaceFolders => file = Absent
    /\ held = IF Truthy(readBookmarksFile)
              THEN extractBookmarks(readBookmarksFile.text) ELSE EmptyForest
    /\ fired = IF Truthy(readBookmarksFile) THEN 1 ELSE 0
    /\ result = NoResult
    /\ lastCall = "constructor"

\* BookmarksDataProvider.refresh(), called by the timer.
refresh ==
    LET content == readBookmarksFile
    IN  /\ Truthy(content) => fired < MaxFired
        /\ held' = IF Truthy(content) THEN extractBookmarks(content.text)
                   ELSE held
        /\ fired' = IF Truthy(content) THEN fired + 1 ELSE fired
        /\ lastCall' = "refresh"
        /\ UNCHANGED <<workspaceFolders, file, result>>
        /\ UNCHANGED builderVars
        /\ UNCHANGED calls

\* The array holding the single placeholder item.
Placeholder == [nodes |-> <<NoBookmarksItem>>, bookmarks |-> <<1>>]

\* getChildren() with no element: the root level of the view.
getChildren ==
    LET content == readBookmarksFile
    IN  /\ held' = IF Truthy(content) THEN extractBookmarks(content.text)
                   ELSE held
        /\ result' = IF Truthy(content) THEN <<extractBookmarks(content.text)>>
                     ELSE <<Placeholder>>
        /\ lastCall' = "getChildren"
        /\ UNCHANGED <<workspaceFolders, file, fired>>
        /\ UNCHANGED builderVars
        /\ UNCHANGED calls

\* getChildren(element), element an item the view got from an earlier call.
getChildrenOf ==
    /\ result # NoResult
    /\ \E id \in 1..Len(result[1].nodes) :
           result' = <<[result[1] EXCEPT !.bookmarks = result[1].nodes[id].children]>>
    /\ lastCall' = "getChildren(element)"
    /\ UNCHANGED <<workspaceFolders, file, held, fired>>
    /\ UNCHANGED builderVars
    /\ UNCHANGED calls

\* The file is created or edited (or emptied: the empty text) outside.
WriteFile ==
    /\ workspaceFolders
    /\ \E c \in Contents : file' = FileWith(c)
    /\ lastCall' = "write"
    /\ UNCHANGED <<workspaceFolders, held, fired, result>>
    /\ UNCHANGED builderVars
    /\ UNCHANGED calls

DeleteFile ==
    /\ workspaceFolders
    /\ file # Absent
    /\ file' = Absent
    /\ lastCall' = "delete"
    /\ UNCHANGED <<workspaceFolders, held, fired, result>>
    /\ UNCHANGED builderVars
    /\ UNCHANGED calls

\* The bookmarks-md.createBookmarksFile command; fs.writeFile may fail.
createBookmarksFile ==
    /\ \/ workspaceFolders /\ file' = FileWith(defaultContent)
       \/ UNCHANGED file
    /\ lastCall' = "createBookmarksFile"
    /\ UNCHANGED <<workspaceFolders, held, fired, result>>
    /\ UNCHANGED builderVars
    /\ UNCHANGED calls

\* ------------------------------------------------- two calls at once

\* Longest run of renderer callbacks of each of the two calls.
MaxCallLen == 3

\* The callbacks the two calls are fed.
CallEvents ==
    {HeadingEvent("A", 1), HeadingEvent("A", 2), LinkEvent("http://x", "X")}

Callers == {1, 2}

\* Variant: one directoryStack at module level, shared by all calls.
SharedStack(call) == 1

\* `let directoryStack` is declared in the body of extractBookmarks: each
\* call has a stack of its own.
StackOf(call) == call

\* Variant: one bookmarks array at module level, shared by all calls.
SharedBookmarks(call) == 1

\* `const bookmarks` is declared in the body of extractBookmarks: each call
\* has an array of its own.
BookmarksOf(call) == call

\* Both calls have entered extractBookmarks and made no callback yet.
CallsInit ==
    [heap |-> <<>>,
     bookmarks |-> [c \in Callers |-> <<>>],
     directoryStack |-> [c \in Callers |-> <<>>],
     events |-> [c \in Callers |-> <<>>],
     pc |-> [c \in Callers |-> "parsing"]]

\* The builder state call `c` works on.
BuilderOf(c) ==
    [nodes |-> calls.heap,
     bookmarks |-> calls.bookmarks[BookmarksOf(c)],
     directoryStack |-> calls.directoryStack[StackOf(c)]]

\* Call c makes the renderer callback e.
CallStep(c, e) ==
    LET b == Render(BuilderOf(c), e)
    IN  /\ calls.pc[c] = "parsing"
        /\ Len(calls.events[c]) < MaxCallLen
        /\ calls' = [calls EXCEPT
                        !.heap = b.nodes,
                        !.bookmarks = [@ EXCEPT ![BookmarksOf(c)] = b.bookmarks],
                        !.directoryStack = [@ EXCEPT ![StackOf(c)] = b.directoryStack],
                        !.events = [@ EXCEPT ![c] = Append(@, e)]]

\* One of the calls makes its next renderer callback.
CallRender ==
    /\ \E c \in Callers, e \in CallEvents : CallStep(c, e)
    /\ UNCHANGED builderVars
    /\ UNCHANGED providerVars

\* Call c returns its bookmarks array.
CallReturn ==
    /\ \E c \in Callers :
           /\ calls.pc[c] = "parsing"
           /\ calls' = [calls EXCEPT !.pc = [@ EXCEPT ![c] = "returned"]]
    /\ UNCHANGED builderVars
    /\ UNCHANGED providerVars

\* ------------------------------------------------------- specifications

Init ==
    /\ BuilderInit
    /\ workspaceFolders = TRUE
    /\ file = Absent
    /\ held = EmptyForest
    /\ fired = 0
    /\ result = NoResult
    /\ lastCall = "constructor"
    /\ calls = CallsInit

Next == Heading \/ Link \/ Other \/ Return

Spec == Init /\ [][Next]_vars

\* marked(...) and the renderer callbacks are synchronous and run to
\* completion: a call that can take a step takes one.
SpecTerminating == Spec /\ WF_vars(Next)

InitProvider == BuilderInit /\ ProviderInit /\ calls = CallsInit

NextProvider ==
    \/ refresh
    \/ getChildren
    \/ getChildrenOf
    \/ WriteFile
    \/ DeleteFile
    \/ createBookmarksFile

SpecProvider == InitProvider /\ [][NextProvider]_vars

NextCalls == CallRender \/ CallReturn

\* Two extractBookmarks calls, their callbacks interleaved in any order.
SpecCalls == Init /\ [][NextCalls]_vars

\* ------------------------------------------- reading the builder's state

Ids == 1..Len(nodes)
Dirs == {n \in Ids : nodes[n].kind = "Directory"}
Links == {n \in Ids : nodes[n].kind = "Link"}

InSeq(x, seq) == \E i \in 1..Len(seq) : seq[i] = x
Pos(x, seq) == CHOOSE i \in 1..Len(seq) : seq[i] = x

\* The directories whose children array holds n.
Parents(n) == {d \in Ids : InSeq(n, nodes[d].children)}
IsRoot(n) == InSeq(n, bookmarks)

HeadingIdx == {i \in 1..Len(events) : events[i].type = "heading"}
LinkIdx == {i \in 1..Len(events) : events[i].type = "link"}

\* The object the callback at index i allocated.
NodeOf(i) == CHOOSE n \in Ids : born[n] = i

MaxOf(S) == IF S = {} THEN 0 ELSE CHOOSE x \in S : \A y \in S : y <= x

\* The last heading callback before index i (0: none).
LastHeadingBefore(i) == MaxOf({j \in HeadingIdx : j < i})

IsHeading(e) == e.type = "heading"
IsEvent(e) == e.type # "other"

\* The stack the call had before its last callback.
StackBeforeLast ==
    marked(NewBuilder, SubSeq(events, 1, Len(events) - 1)).directoryStack

\* --------------------------------------------------------------- claims

\* C1: every child of a Directory D was allocated by a callback after D's
\* heading and before the next heading after D's whose level is <= D.level;
\* nothing at or after that closing heading adds a child to D.
C1_ChildrenWithinSpan ==
    \A d \in Dirs : \A k \in 1..Len(nodes[d].children) :
        LET c == nodes[d].children[k]
        IN  /\ born[d] < born[c]
            /\ \A j \in (born[d] + 1)..born[c] :
                   ~(events[j].type = "heading" /\ events[j].level <= nodes[d].level)

\* A Directory with children was closed and a later callback allocated a node.
C1_Witness ==
    \E d \in Dirs : \E j \in HeadingIdx :
        /\ nodes[d].children # <<>>
        /\ j > born[d]
        /\ events[j].level <= nodes[d].level
        /\ \E n \in Ids : born[n] > j

\* C2: in every state of the builder a Directory that is a child of a
\* Directory has a level strictly greater than its parent's.
C2_StrictNesting ==
    \A d \in Dirs : \A k \in 1..Len(nodes[d].children) :
        LET c == nodes[d].children[k]
        IN  nodes[c].kind = "Directory" => nodes[c].level > nodes[d].level

\* A Directory nested two deep, in a run that has popped.
C2_Witness ==
    /\ pops > 0
    /\ \E a \in Dirs, b \in Dirs, c \in Dirs :
           InSeq(b, nodes[a].children) /\ InSeq(c, nodes[b].children)

\* C3, the state part: a Link has no children; it is a child of the
\* Directory of the most recent heading before it and of nothing else, or an
\* element of bookmarks when no heading precedes it; the top of the stack is
\* the Directory of the most recent heading.
C3_LinkPlace ==
    /\ \A n \in Links :
           LET h == LastHeadingBefore(born[n])
           IN  /\ nodes[n].children = <<>>
               /\ ~InSeq(n, directoryStack)
               /\ IF h = 0
                  THEN IsRoot(n) /\ Parents(n) = {}
                  ELSE ~IsRoot(n) /\ Parents(n) = {NodeOf(h)}
    /\ (directoryStack = <<>>) <=> (HeadingIdx = {})
    /\ directoryStack # <<>> => born[Top(directoryStack)] = MaxOf(HeadingIdx)

\* C3, the step part: a link callback allocates one Link, appends it last to
\* the children of the top of the stack (or last to bookmarks when the stack
\* is empty), changes no other object and leaves the stack as it was.
C3_LinkStep ==
    (Len(events') = Len(events) + 1 /\ events'[Len(events')].type = "link") =>
        LET e == events'[Len(events')]
            id == Len(nodes) + 1
        IN  /\ directoryStack' = directoryStack
            /\ Len(nodes') = id
            /\ nodes'[id].kind = "Link"
            /\ nodes'[id].title = e.text
            /\ nodes'[id].link = e.href
            /\ nodes'[id].children = <<>>
            /\ IF directoryStack = <<>>
               THEN /\ bookmarks' = Append(bookmarks, id)
                    /\ \A n \in Ids : nodes'[n] = nodes[n]
               ELSE /\ bookmarks' = bookmarks
                    /\ nodes'[Top(directoryStack)].children =
                           Append(nodes[Top(directoryStack)].children, id)
                    /\ \A n \in Ids \ {Top(directoryStack)} : nodes'[n] = nodes[n]

\* C3: each Link is appended as the last child of the top of the stack, the
\* Directory of the most recent heading whatever its level, or as the last
\* element of the forest root when no heading precedes it; a link callback
\* never pushes or pops, and a Link never has children.
C3_LinkAttach == [](C3_LinkPlace) /\ [][C3_LinkStep]_vars

\* A Link at the root and a Link under a Directory that is itself nested.
C3_Witness ==
    /\ \E n \in Links : IsRoot(n)
    /\ \E n \in Links : \E d \in Parents(n) : Parents(d) # {}

\* C4: of two consecutive headings of the same level (only links between
\* them), the second Directory is not a child of the first; it has the
\* first's parent (both in bookmarks, or both children of one Directory) and
\* comes after the first in that parent's order.
C4_SameLevelSiblings ==
    \A i \in HeadingIdx, j \in HeadingIdx :
        (/\ i < j
         /\ events[i].level = events[j].level
         /\ ~\E m \in HeadingIdx : i < m /\ m < j)
        => LET a == NodeOf(i)
               b == NodeOf(j)
           IN  /\ ~InSeq(b, nodes[a].children)
               /\ Parents(a) = Parents(b)
               /\ IsRoot(a) <=> IsRoot(b)
               /\ IsRoot(a) <=> Parents(a) = {}
               /\ IsRoot(a) => Pos(a, bookmarks) < Pos(b, bookmarks)
               /\ \A p \in Parents(a) :
                      Pos(a, nodes[p].children) < Pos(b, nodes[p].children)

\* Two same-level headings with a link between them, both under a Directory.
C4_Witness ==
    \E i \in HeadingIdx, j \in HeadingIdx :
        /\ i + 1 < j
        /\ events[i].level = events[j].level
        /\ \A m \in (i + 1)..(j - 1) : events[m].type = "link"
        /\ Parents(NodeOf(j)) # {}

\* C5: the directory stack is strictly increasing in level from bottom to
\* top; right after a heading the new Directory is on top, with the
\* heading's level, above Directories of smaller levels only; the bottom
\* element is a forest root and each other element is the last child of the
\* element beneath it.
C5_StackShape ==
    /\ \A i \in 1..(Len(directoryStack) - 1) :
           /\ nodes[directoryStack[i]].level < nodes[directoryStack[i + 1]].level
           /\ nodes[directoryStack[i]].children # <<>>
           /\ Top(nodes[directoryStack[i]].children) = directoryStack[i + 1]
    /\ \A i \in 1..Len(directoryStack) : directoryStack[i] \in Dirs
    /\ directoryStack # <<>> => IsRoot(directoryStack[1])
    /\ (events # <<>> /\ Top(events).type = "heading") =>
           /\ directoryStack # <<>>
           /\ Top(directoryStack) = Len(nodes)
           /\ born[Top(directoryStack)] = Len(events)
           /\ nodes[Top(directoryStack)].level = Top(events).level
           /\ \A i \in 1..(Len(directoryStack) - 1) :
                  nodes[directoryStack[i]].level < Top(events).level

\* A heading that popped several nested Directories in its one step and was
\* attached under a Directory that stayed open.
C5_Witness ==
    /\ events # <<>>
    /\ Top(events).type = "heading"
    /\ Len(directoryStack) = 2
    /\ Len(StackBeforeLast) >= 3

\* C6: one Heading(L) followed by N links yields one root, a Directory of
\* level L, whose children are exactly those N Links in order, titles and
\* targets kept, and nothing else.
C6_HeadingThenLinks ==
    LET ev == SelectSeq(events, IsEvent)
    IN  (/\ Len(ev) >= 1
         /\ ev[1].type = "heading"
         /\ \A k \in 2..Len(ev) : ev[k].type = "link")
        => /\ bookmarks = <<1>>
           /\ Len(nodes) = Len(ev)
           /\ nodes[1].kind = "Directory"
           /\ nodes[1].level = ev[1].level
           /\ nodes[1].title = ev[1].text
           /\ nodes[1].children = [k \in 1..(Len(ev) - 1) |-> k + 1]
           /\ \A k \in 2..Len(ev) :
                  /\ nodes[k].kind = "Link"
                  /\ nodes[k].title = ev[k].text
                  /\ nodes[k].link = ev[k].href
                  /\ nodes[k].children = <<>>

\* A heading followed by two different links, returned.
C6_Witness ==
    LET ev == SelectSeq(events, IsEvent)
    IN  /\ pc = "returned"
        /\ Len(ev) >= 3
        /\ ev[1].type = "heading"
        /\ \A k \in 2..Len(ev) : ev[k].type = "link"
        /\ ev[2] # ev[3]

DirChildren(d) ==
    {c \in Dirs : InSeq(c, nodes[d].children)}

RECURSIVE DirDepth(_)
DirDepth(d) == 1 + MaxOf({DirDepth(c) : c \in DirChildren(d)})

\* C7: when the headings' levels are strictly increasing (gaps allowed), the
\* Directories form one chain: the first is the only Directory root (the
\* only root when there are no links), each later one is the only Directory
\* child of the one before, and the chain is as deep as there are headings.
C7_IncreasingChain ==
    LET hs == SelectSeq(events, IsHeading)
    IN  (/\ Len(hs) >= 1
         /\ \A k \in 1..(Len(hs) - 1) : hs[k].level < hs[k + 1].level)
        => LET dirOf(k) == CHOOSE d \in Dirs : Cardinality({x \in Dirs : x <= d}) = k
           IN  /\ Cardinality(Dirs) = Len(hs)
               /\ {d \in Dirs : IsRoot(d)} = {dirOf(1)}
               /\ LinkIdx = {} => bookmarks = <<dirOf(1)>>
               /\ \A k \in 1..(Len(hs) - 1) : DirChildren(dirOf(k)) = {dirOf(k + 1)}
               /\ DirChildren(dirOf(Len(hs))) = {}
               /\ DirDepth(dirOf(1)) = Len(hs)
               /\ \A d \in Dirs \ {dirOf(1)} : Cardinality(Parents(d)) = 1

\* Three headings of increasing levels and nothing else: a chain three deep.
C7_Witness ==
    LET hs == SelectSeq(events, IsHeading)
    IN  /\ Len(hs) >= 3
        /\ \A k \in 1..(Len(hs) - 1) : hs[k].level < hs[k + 1].level
        /\ Len(events) = Len(hs)

\* C8: a heading whose level is <= the level of every heading before it
\* becomes a forest root placed after all earlier roots, is a child of no
\* Directory, and right after it the stack holds that new Directory alone.
C8_LowestBecomesRoot ==
    \A i \in HeadingIdx :
        (\A j \in HeadingIdx : j < i => events[i].level <= events[j].level)
        => LET n == NodeOf(i)
           IN  /\ IsRoot(n)
               /\ Parents(n) = {}
               /\ \A r \in 1..Len(bookmarks) :
                      born[bookmarks[r]] < i <=> r < Pos(n, bookmarks)
               /\ i = Len(events) => directoryStack = <<n>>

\* Levels such as [2, 3, 1]: the last heading closes a nested pair.
C8_Witness ==
    /\ events # <<>>
    /\ Top(events).type = "heading"
    /\ Len(StackBeforeLast) >= 2
    /\ \A j \in HeadingIdx : Top(events).level <= events[j].level
    /\ \E j \in HeadingIdx : Top(events).level < events[j].level

\* ------------------------------------------ reading the provider's state

\* The forest of the document as it is now: that of its text, and the empty
\* forest when there is no document.
DocumentForest ==
    IF workspaceFolders /\ file.exists THEN extractBookmarks(file.text)
    ELSE EmptyForest

\* C9: after every call of refresh(), whatever file changes and calls came
\* before, the forest the provider holds is the forest of the document's
\* current text, never that of an earlier text.
C9_RefreshRebuilds ==
    lastCall = "refresh" => held = DocumentForest

\* C10: whenever the document yields an empty forest (its text is empty, or
\* holds neither heading nor link), the root-level getChildren() resolves to
\* the single NoBookmarksItem placeholder.
C10_EmptyShowsPlaceholder ==
    (lastCall = "getChildren" /\ DocumentForest.bookmarks = <<>>)
        => result = <<Placeholder>>

\* C11: while there has been neither heading nor link callback (the input
\* produces no event), the forest is empty, no object has been allocated and
\* the directory stack is empty.
C11_NoEventsEmptyForest ==
    (\A i \in 1..Len(events) : events[i].type = "other")
        => /\ bookmarks = <<>>
           /\ nodes = <<>>
           /\ directoryStack = <<>>
           /\ pops = 0

\* A text of other constructs only, parsed to its end and returned.
C11_Witness ==
    /\ pc = "returned"
    /\ Len(events) >= 2
    /\ \A i \in 1..Len(events) : events[i].type = "other"

\* C13, the count: every pop removes a Directory an earlier heading pushed,
\* so the pops and the Directories still open add up to the headings
\* processed, and the pops never exceed them.
C13_PopsBounded ==
    /\ pops + Len(directoryStack) = Cardinality(HeadingIdx)
    /\ pops <= Cardinality(HeadingIdx)

\* C13, the loop: a heading step leaves a prefix of the old stack under the
\* new Directory, having popped once per element it dropped (at most the
\* old stack's length); no other step pops.
C13_LoopShrinks ==
    IF Len(events') = Len(events) + 1 /\ events'[Len(events')].type = "heading"
    THEN \E k \in 0..Len(directoryStack) :
             /\ Len(directoryStack') = k + 1
             /\ SubSeq(directoryStack', 1, k) = SubSeq(directoryStack, 1, k)
             /\ pops' = pops + (Len(directoryStack) - k)
    ELSE pops' = pops /\ Len(directoryStack') = Len(directoryStack)

\* C13: for every finite run of callbacks the builder terminates and returns
\* a forest; each heading's pop loop ends after at most as many pops as the
\* stack held, and the pops of a run never exceed its headings.
C13_Terminates ==
    /\ [](C13_PopsBounded)
    /\ [][C13_LoopShrinks]_vars
    /\ <>(pc = "returned")

\* A run that popped at least twice, with Directories still open, returned.
C13_Witness ==
    /\ pc = "returned"
    /\ pops >= 2
    /\ directoryStack # <<>>

\* The earlier headings of a strictly smaller level than heading i's.
SmallerBefore(i) ==
    {j \in HeadingIdx : j < i /\ events[j].level < events[i].level}

\* C15: the parent of the Directory of heading i is the Directory of the
\* most recent earlier heading of a strictly smaller level, and the
\* Directory is a forest root exactly when there is no such heading.
C15_NearestSmallerParent ==
    \A i \in HeadingIdx :
        LET n == NodeOf(i)
        IN  /\ nodes[n].kind = "Directory"
            /\ IsRoot(n) <=> SmallerBefore(i) = {}
            /\ IF SmallerBefore(i) = {}
               THEN Parents(n) = {}
               ELSE Parents(n) = {NodeOf(MaxOf(SmallerBefore(i)))}

\* A heading whose parent is neither the heading just before it nor absent:
\* two deeper headings lie between it and its parent.
C15_Witness ==
    \E i \in HeadingIdx :
        /\ SmallerBefore(i) # {}
        /\ Cardinality({j \in HeadingIdx : MaxOf(SmallerBefore(i)) < j /\ j < i}) >= 2

\* The stored tree in depth-first order, children in stored order.
RECURSIVE PreOrder(_)
PreOrder(seq) ==
    IF seq = <<>> THEN <<>>
    ELSE <<Head(seq)>> \o PreOrder(nodes[Head(seq)].children) \o PreOrder(Tail(seq))

\* How often object n is referenced from bookmarks and the children arrays.
Occurrences(n) ==
    Cardinality({i \in 1..Len(bookmarks) : bookmarks[i] = n})
    + Cardinality({<<d, i>> \in Ids \X Ids :
                       i <= Len(nodes[d].children) /\ nodes[d].children[i] = n})

EventIdx == HeadingIdx \cup LinkIdx

\* C17: after any prefix of callbacks the forest holds exactly one node per
\* heading or link event; each node is referenced exactly once (one parent,
\* or a root); the depth-first traversal lists the nodes in the order of
\* their events; kind, title, level and target are the event's.
C17_NothingLostOrReordered ==
    /\ Len(nodes) = Cardinality(EventIdx)
    /\ Len(born) = Len(nodes)
    /\ {born[n] : n \in Ids} = EventIdx
    /\ \A n \in Ids : \A k \in Ids : n < k => born[n] < born[k]
    /\ \A n \in Ids : Occurrences(n) = 1
    /\ PreOrder(bookmarks) = [n \in Ids |-> n]
    /\ \A n \in Ids :
           LET e == events[born[n]]
           IN  /\ nodes[n].title = e.text
               /\ nodes[n].link = e.href
               /\ nodes[n].level = e.level
               /\ nodes[n].kind = IF e.type = "heading" THEN "Directory" ELSE "Link"

\* A forest of several roots and a nested Directory, with both links, built
\* from a run that also rendered another construct.
C17_Witness ==
    /\ Len(bookmarks) >= 2
    /\ \E d \in Dirs : Parents(d) # {}
    /\ Cardinality(Links) >= 2
    /\ Len(events) > Len(nodes)

\* There is no text to build from: no workspace folder, no file, or an
\* empty file.
NothingToRead == ~workspaceFolders \/ ~file.exists \/ file.text = <<>>

\* What one refresh() call does to the held forest and the change events.
C18_RefreshStep ==
    lastCall' = "refresh" =>
        IF NothingToRead
        THEN held' = held /\ fired' = fired
        ELSE held' = extractBookmarks(file.text) /\ fired' = fired + 1

\* C18: with the file absent or its text empty, refresh() leaves the held
\* forest as it is and fires no change event; with a non-empty text it
\* replaces the held forest and fires exactly one. So once the file is
\* deleted or emptied no refresh notifies the view and the forest built
\* before stays held.
C18_RefreshFrame == [][C18_RefreshStep]_vars

\* refresh() has just run on a deleted or emptied file and the forest built
\* from the earlier text is still held.
C18_Witness ==
    /\ lastCall = "refresh"
    /\ NothingToRead
    /\ held.bookmarks # <<>>

\* The objects extractBookmarks allocates for one block of the text.
Allocates(block) ==
    CASE block.type = "headingLink" -> 2
      [] block.type = "other" -> 0
      [] OTHER -> 1

RECURSIVE AllocatedBy(_)
AllocatedBy(content) ==
    IF content = <<>> THEN 0
    ELSE Allocates(Head(content)) + AllocatedBy(Tail(content))

\* The objects allocated for block k of the text.
ObjectsOfBlock(content, k) ==
    LET before == AllocatedBy(SubSeq(content, 1, k - 1))
    IN  (before + 1)..(before + Allocates(content[k]))

\* C16: when a link occurs inside a heading's own text, the heading is
\* processed before the link, so in the forest the view is given the Link is
\* a child of the Directory made for that heading.
C16_LinkInsideHeadingNested ==
    (lastCall = "getChildren" /\ ~NothingToRead) =>
        \A k \in 1..Len(file.text) :
            file.text[k].type = "headingLink" =>
                \E l \in ObjectsOfBlock(file.text, k), d \in ObjectsOfBlock(file.text, k) :
                    /\ result[1].nodes[l].kind = "Link"
                    /\ result[1].nodes[d].kind = "Directory"
                    /\ \E i \in 1..Len(result[1].nodes[d].children) :
                           result[1].nodes[d].children[i] = l

\* ----------------------------------------------- reading the two calls

\* The tree under object n of a heap, as a value: deep equality of two
\* forests is equality of these values.
RECURSIVE Tree(_, _)
Tree(heap, n) ==
    [kind |-> heap[n].kind, title |-> heap[n].title, level |-> heap[n].level,
     link |-> heap[n].link,
     children |-> [k \in 1..Len(heap[n].children) |->
                       Tree(heap, heap[n].children[k])]]

DeepForest(heap, roots) == [k \in 1..Len(roots) |-> Tree(heap, roots[k])]

\* The forest call c has built so far (returned, once its pc says so).
ForestOf(c) == DeepForest(calls.heap, calls.bookmarks[c])

\* The forest extractBookmarks builds from the callbacks `content`, alone.
AloneForest(content) ==
    LET f == extractBookmarks(content)
    IN  DeepForest(f.nodes, f.bookmarks)

\* C12, the results: two calls fed the same callbacks have built deep-equal
\* forests.
C12_SameInputSameForest ==
    calls.events[1] = calls.events[2] => ForestOf(1) = ForestOf(2)

\* C12, the frame: no step changes the forest a call has returned.
C12_ReturnedForestKept ==
    \A c \in Callers :
        calls.pc[c] = "returned" =>
            DeepForest(calls'.heap, calls'.bookmarks[c]) = ForestOf(c)

\* C12: two invocations of extractBookmarks on identical text yield
\* deep-equal forests, and the second leaves the forest the first returned
\* unchanged.
C12_Idempotent ==
    [](C12_SameInputSameForest) /\ [][C12_ReturnedForestKept]_vars

\* The first call returned a nested forest before the second made any
\* callback; the second was then fed the same text and returned.
C12_Witness ==
    /\ calls.pc[1] = "returned"
    /\ calls.pc[2] = "returned"
    /\ calls.events[1] = calls.events[2]
    /\ Len(calls.events[1]) = 3
    /\ Len(calls.bookmarks[1]) = 1
    /\ calls.bookmarks[1][1] = 1
    /\ calls.bookmarks[2][1] = 4

\* C14: under any interleaving of the two calls' callbacks, each call's
\* forest is the forest it builds when run alone on its own input.
C14_AsIfAlone ==
    \A c \in Callers : ForestOf(c) = AloneForest(calls.events[c])

\* Two calls on different inputs whose callbacks alternated, both returned
\* with non-empty stacks and nested forests.
C14_Witness ==
    /\ calls.pc[1] = "returned"
    /\ calls.pc[2] = "returned"
    /\ calls.events[1] # calls.events[2]
    /\ Len(calls.heap) = 6
    /\ calls.bookmarks[1] = <<1>>
    /\ calls.bookmarks[2] = <<2>>
    /\ Len(calls.directoryStack[1]) = 2
    /\ Len(calls.directoryStack[2]) = 2

====
